---- MODULE Spec2Model ----
(***************************************************************************)
(* Model of YouTubeVideo2Audio2Text.py: the caption normalizer             *)
(* YouTubeProcessor._clean_vtt and the orchestration in main().            *)
(* A Python str is a sequence of one-character strings.                    *)
(***************************************************************************)
EXTENDS Naturals, Integers, Sequences, FiniteSets, TLC

\* ---------------------------------------------------------------- bounds
MaxLen == 4
MaxLines == 4
MaxVttLen == 2

\* ------------------------------------------------------- string literals
HeaderToken == <<"W", "E", "B", "V", "T", "T">>
ArrowToken == <<"-", "-", ">">>
NewlineSep == <<"\n">>

\* characters str.splitlines() treats as line boundaries
LineBreaks == {"\n", "\r"}
\* characters str.strip() removes
Whitespace == {" ", "\t", "\n", "\r"}

\* ------------------------------------------------------ str primitives
RECURSIVE Concat(_)
Concat(seqs) ==
    IF seqs = <<>> THEN <<>> ELSE Head(seqs) \o Concat(Tail(seqs))

\* str.splitlines(): break at every line boundary, "\r\n" is one boundary,
\* no trailing empty line
BreakStarts(s) ==
    { i \in 1..Len(s) : s[i] \in LineBreaks /\ ~(s[i] = "\n" /\ i > 1 /\ s[i - 1] = "\r") }

BreakEnd(s, i) ==
    IF s[i] = "\r" /\ i < Len(s) /\ s[i + 1] = "\n" THEN i + 1 ELSE i

LineStarts(s) ==
    { p \in {1} \cup { BreakEnd(s, b) + 1 : b \in BreakStarts(s) } : p <= Len(s) }

LineEnd(s, p) ==
    IF \E b \in BreakStarts(s) : b >= p
    THEN (CHOOSE b \in BreakStarts(s) : b >= p /\ \A c \in BreakStarts(s) : c >= p => b <= c) - 1
    ELSE Len(s)

splitlines(s) ==
    [ k \in 1..Cardinality(LineStarts(s)) |->
        LET p == CHOOSE q \in LineStarts(s) :
                    Cardinality({ r \in LineStarts(s) : r < q }) = k - 1
        IN SubSeq(s, p, LineEnd(s, p)) ]

RECURSIVE lstrip(_)
lstrip(s) ==
    IF s # <<>> /\ s[1] \in Whitespace THEN lstrip(Tail(s)) ELSE s

RECURSIVE rstrip(_)
rstrip(s) ==
    IF s # <<>> /\ s[Len(s)] \in Whitespace
    THEN rstrip(SubSeq(s, 1, Len(s) - 1)) ELSE s

strip(s) == rstrip(lstrip(s))

startswith(s, prefix) ==
    Len(s) >= Len(prefix) /\ SubSeq(s, 1, Len(prefix)) = prefix

\* the Python operator  sub in s
contains(s, sub) ==
    \E i \in 1..Len(s) : i + Len(sub) - 1 <= Len(s) /\ SubSeq(s, i, i + Len(sub) - 1) = sub

\* end of the match of  <[^>]+>  that starts at s[1], or 0 when there is none:
\* "<", at least one character other than ">", then the first ">"
TagEnd(s) ==
    IF Len(s) >= 3 /\ s[1] = "<" /\ s[2] # ">" /\ \E k \in 3..Len(s) : s[k] = ">"
    THEN CHOOSE k \in 3..Len(s) : s[k] = ">" /\ \A j \in 3..(k - 1) : s[j] # ">"
    ELSE 0

\* re.sub(r'<[^>]+>', '', s): leftmost non-overlapping matches, left to right
RECURSIVE re_sub_tags(_)
re_sub_tags(s) ==
    IF s = <<>> THEN <<>>
    ELSE IF TagEnd(s) > 0
         THEN re_sub_tags(SubSeq(s, TagEnd(s) + 1, Len(s)))
         ELSE <<s[1]>> \o re_sub_tags(Tail(s))

\* sep.join(list)
RECURSIVE join(_, _)
join(sep, list) ==
    IF list = <<>> THEN <<>>
    ELSE IF Len(list) = 1 THEN list[1]
         ELSE list[1] \o sep \o join(sep, Tail(list))

\* ------------------------------------------------- _clean_vtt, line 130
SkipLine_NoArrow(line) ==
    startswith(strip(line), HeaderToken) \/ strip(line) = <<>>

SkipLine(line) ==
    \/ startswith(strip(line), HeaderToken)
    \/ contains(line, ArrowToken)
    \/ strip(line) = <<>>

\* line 132
CleanedLine(line) == strip(re_sub_tags(line))

\* line 133: is the subscript transcript_lines[-1] evaluated (short circuit)
EvaluatesLast_Unguarded(cleaned_line, tl) == cleaned_line # <<>>

EvaluatesLast(cleaned_line, tl) == cleaned_line # <<>> /\ tl # <<>>

\* line 133: the condition of the append
ShouldAppend_NoDedup(cleaned_line, tl) == cleaned_line # <<>>

ShouldAppend_GlobalDedup(cleaned_line, tl) ==
    cleaned_line # <<>> /\ \A k \in 1..Len(tl) : tl[k] # cleaned_line

ShouldAppend_NoEmptyCheck(cleaned_line, tl) ==
    tl = <<>> \/ tl[Len(tl)] # cleaned_line

ShouldAppend(cleaned_line, tl) ==
    cleaned_line # <<>> /\ (tl = <<>> \/ tl[Len(tl)] # cleaned_line)

\* one iteration of the for loop, lines 129-134
LoopBody(tl, line) ==
    IF SkipLine(line) THEN tl
    ELSE IF ShouldAppend(CleanedLine(line), tl)
         THEN Append(tl, CleanedLine(line))
         ELSE tl

RECURSIVE FoldLines(_, _)
FoldLines(tl, lines) ==
    IF lines = <<>> THEN tl ELSE FoldLines(LoopBody(tl, Head(lines)), Tail(lines))

\* _clean_vtt as a function of its argument
clean_vtt(vtt_content) == join(NewlineSep, FoldLines(<<>>, splitlines(vtt_content)))

\* ------------------------------------------------------ bounded inputs
Tokens == { HeaderToken, <<"-", "-">>, <<"<">>, <<">">>, <<" ">>, <<"\n">>, <<"a">> }

TokenSeqs == UNION { [1..n -> Tokens] : n \in 0..MaxLen }

LowerHeader == <<"w", "e", "b", "v", "t", "t">>

SampleLines == { <<"a">>, LowerHeader, <<"<", "c", ">">>, HeaderToken \o <<" ", "a">>,
                 <<"0", " ">> \o ArrowToken \o <<" ", "1">>,
                 <<"-", "-", "<", "c", ">", ">">> }

LineSeqs == UNION { [1..n -> SampleLines] : n \in 0..MaxLines }

\* the end-to-end caption track of the documented scenario
EndToEndInput ==
    Concat(<<
        <<"W", "E", "B", "V", "T", "T", "\n">>,
        <<"\n">>,
        <<"0", "0", ":", "0", "0", ":", "0", "0", ".", "0", "0", "0", " ", "-", "-", ">", " ", "0", "0", ":", "0", "0", ":", "0", "2", ".", "0", "0", "0", "\n">>,
        <<"<", "c", ">", "h", "e", "l", "l", "o", "<", "/", "c", ">", " ", "t", "h", "e", "r", "e", "\n">>,
        <<"\n">>,
        <<"0", "0", ":", "0", "0", ":", "0", "2", ".", "0", "0", "0", " ", "-", "-", ">", " ", "0", "0", ":", "0", "0", ":", "0", "4", ".", "0", "0", "0", "\n">>,
        <<"h", "e", "l", "l", "o", " ", "t", "h", "e", "r", "e", "\n">>,
        <<"\n">>,
        <<"0", "0", ":", "0", "0", ":", "0", "4", ".", "0", "0", "0", " ", "-", "-", ">", " ", "0", "0", ":", "0", "0", ":", "0", "6", ".", "0", "0", "0", "\n">>,
        <<"g", "o", "o", "d", "b", "y", "e", "\n">> >>)

EndToEndOutput ==
    <<"h", "e", "l", "l", "o", " ", "t", "h", "e", "r", "e">> \o
    <<"\n", "g", "o", "o", "d", "b", "y", "e">>

MarkupExample == <<"<", "c", ">", "H", "e", "l", "l", "o", "<", "/", "c", ">", " ", "<", "i", ">", "w", "o", "r", "l", "d", "<", "/", "i", ">">>

Inputs ==
    { Concat(ts) : ts \in TokenSeqs } \cup { join(NewlineSep, ls) : ls \in LineSeqs }
        \cup { EndToEndInput, MarkupExample }

\* ------------------------------------------------- main(): environment
None == <<"None">>

\* truthiness of an Optional[str]
Truthy(x) == x # None /\ x # <<>>

\* titles the Media Extraction Service can report; "missing" = no 'title' key
RawTitles == { <<"t">>, <<"t", "?">>, <<"?">> }

UntitledVideo == <<"Untitled_Video">>

\* line 51: the characters removed from a title
IllegalTitleChars == {"\\", "/", "*", "?", ":", "\"", "<", ">", "|"}

SanitizeTitle(title) == SelectSeq(title, LAMBDA c : c \notin IllegalTitleChars)

\* caption files the Media Extraction Service can leave on disk
VttContents == { Concat(ts) : ts \in UNION { [1..n -> Tokens] : n \in 0..MaxVttLen } }

\* texts the Text Generation Service can return
Responses == { <<>>, <<"R">>, <<" ", "R", "\n">> }

Choices == {"1", "2", "3", "4", "5"}

StageOrder == <<"mkdir", "init", "audio", "transcript", "summary", "mcqs">>

StageIdx(s) == CHOOSE i \in 1..Len(StageOrder) : StageOrder[i] = s

\* lines 113, 171, 191: artifact names
FileName(title, role) == title \o <<role>>

\* lines 157-168 and 178-188: the prompt embeds the transcript
Prompt(kind, text) == <<kind, text>>

\* lines 173, 193: f.write(response)
PersistedText_Stripped(response) == strip(response)

PersistedText(response) == response

\* lines 231-234: the exceptions main's handlers catch
MainCatches_InputOnly(exc) == exc \in {"ValueError", "TypeError"}

MainCatches(exc) == exc \in {"ValueError", "TypeError", "OSError", "Exception"}

\* line 222
GenerationWanted_NoTranscriptTest(ch, tr) == ch \in {"3", "4"}

GenerationWanted(ch, tr) == ch \in {"3", "4"} /\ Truthy(tr)

\* ---------------------------------------------------------------- state
VARIABLES vtt_content, pc, lines, idx, transcript_lines, ret,
          mpc, choice, video_title, groq_client, transcript,
          log, files, calls, sent, resp, order, failed, escaped

cleanvars == <<vtt_content, pc, lines, idx, transcript_lines, ret>>

mainvars == <<mpc, choice, video_title, groq_client, transcript,
              log, files, calls, sent, resp, order, failed, escaped>>

vars == <<vtt_content, pc, lines, idx, transcript_lines, ret,
          mpc, choice, video_title, groq_client, transcript,
          log, files, calls, sent, resp, order, failed, escaped>>

Collaborators == {"title", "audio", "captions", "summary", "mcqs"}

CleanIdle ==
    /\ vtt_content = <<>>
    /\ pc = "idle"
    /\ lines = <<>>
    /\ idx = 0
    /\ transcript_lines = <<>>
    /\ ret = None

MainFresh ==
    /\ choice = ""
    /\ video_title = None
    /\ groq_client = FALSE
    /\ transcript = None
    /\ log = {}
    /\ files = {}
    /\ calls = [c \in Collaborators |-> 0]
    /\ sent = {}
    /\ resp = [k \in {"summary", "mcqs"} |-> None]
    /\ order = <<>>
    /\ failed = {}
    /\ escaped = FALSE

\* --------------------------------------------- _clean_vtt step by step
InitClean ==
    /\ vtt_content \in Inputs
    /\ pc = "call"
    /\ lines = <<>>
    /\ idx = 0
    /\ transcript_lines = <<>>
    /\ ret = None
    /\ mpc = "idle"
    /\ MainFresh

\* lines 127-128
Split ==
    /\ pc = "call"
    /\ lines' = splitlines(vtt_content)
    /\ transcript_lines' = <<>>
    /\ idx' = 1
    /\ pc' = "loop"
    /\ UNCHANGED <<vtt_content, ret>>
    /\ UNCHANGED mainvars

\* lines 129-131: continue
LoopSkip ==
    /\ pc = "loop" /\ idx <= Len(lines)
    /\ SkipLine(lines[idx])
    /\ idx' = idx + 1
    /\ UNCHANGED <<vtt_content, pc, lines, transcript_lines, ret>>
    /\ UNCHANGED mainvars

\* lines 132-134
LoopClean ==
    /\ pc = "loop" /\ idx <= Len(lines)
    /\ ~SkipLine(lines[idx])
    /\ LET cleaned_line == CleanedLine(lines[idx]) IN
        IF EvaluatesLast(cleaned_line, transcript_lines) /\ transcript_lines = <<>>
        THEN /\ pc' = "raised"     \* IndexError from transcript_lines[-1]
             /\ UNCHANGED <<idx, transcript_lines>>
        ELSE /\ transcript_lines' = LoopBody(transcript_lines, lines[idx])
             /\ idx' = idx + 1
             /\ pc' = pc
    /\ UNCHANGED <<vtt_content, lines, ret>>
    /\ UNCHANGED mainvars

\* line 135
Return ==
    /\ pc = "loop" /\ idx > Len(lines)
    /\ ret' = join(NewlineSep, transcript_lines)
    /\ pc' = "done"
    /\ UNCHANGED <<vtt_content, lines, idx, transcript_lines>>
    /\ UNCHANGED mainvars

NextClean == Split \/ LoopSkip \/ LoopClean \/ Return

SpecClean == InitClean /\ [][NextClean]_vars

\* the interpreter runs the single thread to completion
SpecCleanFair == InitClean /\ [][NextClean]_vars /\ WF_vars(NextClean)

\* -------------------------------------------------------------- main()
Raised == <<"raise">>
MissingKey == <<"missing">>
NoFile == <<"nofile">>

\* lines 231-234: what main's handlers log for an exception out of a stage
MainHandler(exc, stage) ==
    IF MainCatches(exc)
    THEN {<<"error", stage,
            IF exc \in {"ValueError", "TypeError"} THEN "Input Error"
            ELSE "An unexpected error occurred in main">>}
    ELSE {}

InitMain ==
    /\ CleanIdle
    /\ mpc = "start"
    /\ MainFresh

\* lines 200-204
MakeDirs ==
    /\ mpc = "start"
    /\ order' = Append(order, "mkdir")
    /\ \E exists \in BOOLEAN, ok \in BOOLEAN :
        IF ~exists /\ ~ok
        THEN /\ failed' = failed \cup {<<"mkdir", "makedirs">>}
             /\ log' = log \cup MainHandler("OSError", "mkdir")
             /\ escaped' = ~MainCatches("OSError")
             /\ mpc' = "done"
        ELSE /\ mpc' = "construct"
             /\ UNCHANGED <<failed, log, escaped>>
    /\ UNCHANGED <<choice, video_title, groq_client, transcript, files, calls, sent, resp>>
    /\ UNCHANGED cleanvars

\* line 206: YouTubeProcessor.__init__ (lines 31-42) with _get_video_title (44-54)
Construct ==
    /\ mpc = "construct"
    /\ order' = Append(order, "init")
    /\ calls' = [calls EXCEPT !["title"] = @ + 1]
    /\ \E info \in {Raised, MissingKey} \cup RawTitles, groq_ok \in BOOLEAN :
        LET title == IF info = Raised THEN None
                     ELSE SanitizeTitle(IF info = MissingKey THEN UntitledVideo ELSE info)
            titleLog == IF info = Raised
                        THEN {<<"error", "init", "Failed to get video title">>} ELSE {}
        IN  /\ video_title' = title
            /\ IF ~Truthy(title)
               THEN /\ failed' = failed \cup {<<"init", "title">>}
                    /\ log' = log \cup titleLog \cup MainHandler("ValueError", "init")
                    /\ escaped' = ~MainCatches("ValueError")
                    /\ mpc' = "done"
                    /\ UNCHANGED groq_client
               ELSE /\ groq_client' = groq_ok
                    /\ IF groq_ok
                       THEN UNCHANGED <<failed, log>>
                       ELSE /\ failed' = failed \cup {<<"init", "groq">>}
                            /\ log' = log \cup
                                 {<<"warning", "init", "Could not initialize Groq client">>}
                    /\ mpc' = "choice"
                    /\ UNCHANGED escaped
    /\ UNCHANGED <<choice, transcript, files, sent, resp>>
    /\ UNCHANGED cleanvars

\* lines 208-213
ReadChoice ==
    /\ mpc = "choice"
    /\ choice' \in Choices
    /\ mpc' = "audio"
    /\ UNCHANGED <<video_title, groq_client, transcript, log, files, calls, sent, resp,
                   order, failed, escaped>>
    /\ UNCHANGED cleanvars

\* lines 215-216 with download_audio (56-79)
Audio ==
    /\ mpc = "audio"
    /\ IF choice \in {"1", "4"}
       THEN /\ order' = Append(order, "audio")
            /\ calls' = [calls EXCEPT !["audio"] = @ + 1]
            /\ \E outcome \in {"ok", "ffmpeg", "download_error", "exception"} :
                IF outcome = "ok"
                THEN /\ files' = files \cup {<<FileName(video_title, ".mp3"), <<"mp3">>>>}
                     /\ log' = log \cup {<<"info", "audio", "Audio downloaded successfully">>}
                     /\ UNCHANGED failed
                ELSE /\ failed' = failed \cup {<<"audio", outcome>>}
                     /\ log' = log \cup {<<"error", "audio", outcome>>}
                     /\ UNCHANGED files
       ELSE UNCHANGED <<order, calls, files, log, failed>>
    /\ mpc' = "transcript"
    /\ UNCHANGED <<choice, video_title, groq_client, transcript, sent, resp, escaped>>
    /\ UNCHANGED cleanvars

\* lines 218-220 with get_transcript (81-123)
Transcript ==
    /\ mpc = "transcript"
    /\ IF choice \in {"2", "3", "4"}
       THEN /\ order' = Append(order, "transcript")
            /\ calls' = [calls EXCEPT !["captions"] = @ + 1]
            /\ \E sub \in {Raised, NoFile} \cup VttContents,
                  write_ok \in BOOLEAN, remove_ok \in BOOLEAN :
                IF sub = Raised
                THEN /\ transcript' = None
                     /\ failed' = failed \cup {<<"transcript", "fetch">>}
                     /\ log' = log \cup {<<"error", "transcript", "Failed to get transcript">>}
                     /\ UNCHANGED files
                ELSE IF sub = NoFile
                THEN /\ transcript' = None
                     /\ failed' = failed \cup {<<"transcript", "nofile">>}
                     /\ log' = log \cup
                          {<<"warning", "transcript", "Could not find a subtitle file">>}
                     /\ UNCHANGED files
                ELSE IF ~write_ok
                THEN /\ transcript' = None
                     /\ failed' = failed \cup {<<"transcript", "write">>}
                     /\ log' = log \cup {<<"error", "transcript", "Failed to get transcript">>}
                     /\ UNCHANGED files
                ELSE /\ files' = files \cup
                          {<<FileName(video_title, "_transcript.txt"), clean_vtt(sub)>>}
                     /\ IF remove_ok
                        THEN /\ transcript' = clean_vtt(sub)
                             /\ log' = log \cup {<<"info", "transcript", "Transcript saved">>}
                             /\ UNCHANGED failed
                        ELSE /\ transcript' = None
                             /\ failed' = failed \cup {<<"transcript", "cleanup">>}
                             /\ log' = log \cup
                                  {<<"info", "transcript", "Transcript saved">>,
                                   <<"error", "transcript", "Failed to get transcript">>}
       ELSE /\ transcript' = None
            /\ UNCHANGED <<order, calls, files, log, failed>>
    /\ mpc' = "generate"
    /\ UNCHANGED <<choice, video_title, groq_client, sent, resp, escaped>>
    /\ UNCHANGED cleanvars

\* generate_summary (155-174) / generate_mcqs (176-194) with _call_groq_api (137-153)
Generate(kind, role, nextpc) ==
    /\ order' = Append(order, kind)
    /\ IF ~groq_client
       THEN /\ log' = log \cup {<<"error", kind, "Groq client not available">>}
            /\ mpc' = nextpc
            /\ UNCHANGED <<calls, sent, resp, files, failed, escaped>>
       ELSE /\ calls' = [calls EXCEPT ![kind] = @ + 1]
            /\ sent' = sent \cup {Prompt(kind, transcript)}
            /\ \E r \in {Raised} \cup Responses, write_ok \in BOOLEAN :
                /\ resp' = [resp EXCEPT ![kind] = r]
                /\ IF r = Raised
                   THEN /\ failed' = failed \cup {<<kind, "call">>}
                        /\ log' = log \cup {<<"error", kind, "Groq API call failed">>}
                        /\ mpc' = nextpc
                        /\ UNCHANGED <<files, escaped>>
                   ELSE IF ~Truthy(r)
                   THEN /\ log' = log \cup {<<"info", kind, "Successfully received response">>}
                        /\ mpc' = nextpc
                        /\ UNCHANGED <<files, failed, escaped>>
                   ELSE IF write_ok
                   THEN /\ files' = files \cup
                             {<<FileName(video_title, role), PersistedText(r)>>}
                        /\ log' = log \cup {<<"info", kind, "Successfully received response">>,
                                            <<"info", kind, "saved">>}
                        /\ mpc' = nextpc
                        /\ UNCHANGED <<failed, escaped>>
                   ELSE /\ failed' = failed \cup {<<kind, "write">>}
                        /\ log' = log \cup {<<"info", kind, "Successfully received response">>}
                                      \cup MainHandler("OSError", kind)
                        /\ escaped' = ~MainCatches("OSError")
                        /\ mpc' = "done"
                        /\ UNCHANGED files

\* lines 222-227
GenerateSummary ==
    /\ mpc = "generate"
    /\ IF GenerationWanted(choice, transcript)
       THEN IF groq_client
            THEN Generate("summary", "_summary.txt", "mcqs")
            ELSE /\ log' = log \cup {<<"warning", "summary", "Skipping Summary/MCQs">>}
                 /\ mpc' = "complete"
                 /\ UNCHANGED <<order, calls, sent, resp, files, failed, escaped>>
       ELSE /\ mpc' = "complete"
            /\ UNCHANGED <<order, calls, sent, resp, files, failed, escaped, log>>
    /\ UNCHANGED <<choice, video_title, groq_client, transcript>>
    /\ UNCHANGED cleanvars

\* line 225
GenerateMcqs ==
    /\ mpc = "mcqs"
    /\ Generate("mcqs", "_mcqs.txt", "complete")
    /\ UNCHANGED <<choice, video_title, groq_client, transcript>>
    /\ UNCHANGED cleanvars

\* line 229
Complete ==
    /\ mpc = "complete"
    /\ log' = log \cup {<<"info", "main", "Processing complete.">>}
    /\ mpc' = "done"
    /\ UNCHANGED <<choice, video_title, groq_client, transcript, files, calls, sent, resp,
                   order, failed, escaped>>
    /\ UNCHANGED cleanvars

Next ==
    \/ MakeDirs
    \/ Construct
    \/ ReadChoice
    \/ Audio
    \/ Transcript
    \/ GenerateSummary
    \/ GenerateMcqs
    \/ Complete

Spec == InitMain /\ [][Next]_vars

\* ============================================================ properties
\* ------------------------------------------------ the caption normalizer
IsHeaderLine(line) == startswith(strip(line), HeaderToken)

IsTimingLine(line) == contains(line, ArrowToken)

IsBlankLine(line) == \A k \in 1..Len(line) : line[k] \in Whitespace

\* a "<" with a ">" somewhere after it
HasDelimitedTag(line) ==
    \E i \in 1..Len(line) : \E j \in (i + 1)..Len(line) : line[i] = "<" /\ line[j] = ">"

\* C1: the output of _clean_vtt has no substring delimited by "<" and the
\* next ">" and no line containing the arrow token "-->".
C1_NoResidualMarkup ==
    pc = "done" =>
        \A k \in 1..Len(transcript_lines) :
            /\ ~HasDelimitedTag(transcript_lines[k])
            /\ ~IsTimingLine(transcript_lines[k])

\* C2: _clean_vtt is idempotent, _clean_vtt(_clean_vtt(x)) = _clean_vtt(x).
C2_Idempotent ==
    pc = "done" => clean_vtt(ret) = ret

\* the reference result of C3, as a pipeline over the whole list of lines
RefRetained(ls) ==
    SelectSeq(ls, LAMBDA l : ~(IsHeaderLine(l) \/ IsTimingLine(l) \/ IsBlankLine(l)))

RefCleaned(ls) == [k \in 1..Len(ls) |-> CleanedLine(ls[k])]

RefNonEmpty(ls) == SelectSeq(ls, LAMBDA l : l # <<>>)

RECURSIVE CollapseRuns(_)
CollapseRuns(ls) ==
    IF Len(ls) <= 1 THEN ls
    ELSE IF ls[Len(ls)] = ls[Len(ls) - 1]
         THEN CollapseRuns(SubSeq(ls, 1, Len(ls) - 1))
         ELSE Append(CollapseRuns(SubSeq(ls, 1, Len(ls) - 1)), ls[Len(ls)])

Reference(s) ==
    join(NewlineSep, CollapseRuns(RefNonEmpty(RefCleaned(RefRetained(splitlines(s))))))

\* C3: the output of _clean_vtt equals the reference result: drop
\* header/timing/blank lines, strip tags and trim, drop emptied lines, collapse
\* each run of adjacent identical lines; order is kept and only adjacent
\* duplicates collapse.
C3_EqualsReference ==
    pc = "done" => ret = Reference(vtt_content)

\* lines A, A, B, A (A = "a", B = "webvtt") have given A, B, A
C3_Witness ==
    /\ pc = "done"
    /\ lines = << <<"a">>, <<"a">>, LowerHeader, <<"a">> >>
    /\ ret = <<"a", "\n">> \o LowerHeader \o <<"\n", "a">>

\* C4: no line of the output of _clean_vtt equals the line right before it.
C4_NoAdjacentDuplicate ==
    pc = "done" =>
        \A k \in 2..Len(splitlines(ret)) : splitlines(ret)[k] # splitlines(ret)[k - 1]

\* two adjacent input lines with the same text were collapsed to one
C4_Witness ==
    /\ pc = "done"
    /\ \E k \in 2..Len(lines) :
        /\ lines[k] = lines[k - 1]
        /\ ~SkipLine(lines[k])
        /\ CleanedLine(lines[k]) # <<>>
    /\ Len(transcript_lines) = 1

\* lines C5 calls skipped: blank, pure markup, header or timing
IsDropped(line) ==
    IsBlankLine(line) \/ IsHeaderLine(line) \/ IsTimingLine(line) \/ CleanedLine(line) = <<>>

WithoutDropped(ls) == SelectSeq(ls, LAMBDA l : ~IsDropped(l))

\* C5: a line that is empty, whitespace-only or empty after tag stripping is
\* absent from the output, and skipped lines do not reset the duplicate
\* comparison: the output is the one of the input with those lines deleted.
C5_BlankLineElision ==
    pc = "done" =>
        /\ \A k \in 1..Len(transcript_lines) : ~IsBlankLine(transcript_lines[k])
        /\ Len(splitlines(ret)) = Len(transcript_lines)
        /\ ret = clean_vtt(join(NewlineSep, WithoutDropped(lines)))

\* the documented end-to-end track has given "hello there", "goodbye"
C5_Witness ==
    /\ pc = "done"
    /\ vtt_content = EndToEndInput
    /\ ret = EndToEndOutput

WithoutHeaderTiming(ls) == SelectSeq(ls, LAMBDA l : ~(IsHeaderLine(l) \/ IsTimingLine(l)))

\* C6: a line starting (after trimming) with 'WEBVTT' or containing '-->' is
\* dropped wholesale: the output is the one of the input without those lines,
\* and a track of header and timing lines only gives the empty output; the
\* token is case-sensitive, a line "webvtt" is kept.
C6_HeaderTimingDropped ==
    pc = "done" =>
        /\ ret = clean_vtt(join(NewlineSep, WithoutHeaderTiming(lines)))
        /\ \A k \in 1..Len(lines) :
              lines[k] = LowerHeader => \E n \in 1..Len(transcript_lines) :
                                            transcript_lines[n] = LowerHeader
        /\ (\A k \in 1..Len(lines) : IsHeaderLine(lines[k]) \/ IsTimingLine(lines[k]))
              => ret = <<>>

\* a header line and a timing line, both holding other text, have given nothing
C6_Witness ==
    /\ pc = "done"
    /\ lines = << HeaderToken \o <<" ", "a">>, <<"0", " ">> \o ArrowToken \o <<" ", "1">> >>
    /\ ret = <<>>

\* C7: _clean_vtt terminates with a string for every input, never raises,
\* and changes nothing but its locals and its return value.
C7_Total ==
    /\ <>(pc = "done" /\ ret # None)
    /\ [](pc # "raised")
    /\ [][UNCHANGED <<vtt_content, mainvars>>]_vars

\* a malformed track (unclosed tags, stray brackets) has given the empty output
C7_Witness ==
    /\ pc = "done"
    /\ vtt_content = <<"<", "<", ">", " ">>
    /\ ret = <<>>

\* --------------------------------------------------------------- main()
Logged(stage) == \E e \in log : e[1] \in {"error", "warning"} /\ e[2] = stage

Ran(stage) == \E k \in 1..Len(order) : order[k] = stage

\* the failures the policy of C8 lists
ListedFailures ==
    { f \in failed : f # <<"init", "groq">> /\ f # <<"transcript", "cleanup">> }

\* C8 as stated: every stage failure is logged and skips the later stages,
\* no exception escapes main and no collaborator call is retried.
C8_FailureSkipsLater ==
    /\ escaped = FALSE
    /\ \A c \in Collaborators : calls[c] <= 1
    /\ \A f \in ListedFailures :
        /\ Logged(f[1])
        /\ \A k \in 1..Len(order) : StageIdx(order[k]) <= StageIdx(f[1])

\* failures that end the run
EndsRun(f) ==
    f \in {<<"mkdir", "makedirs">>, <<"init", "title">>,
           <<"summary", "write">>, <<"mcqs", "write">>}

\* C8 as amended: every stage failure is logged, no exception escapes main and
\* no collaborator call is made twice; a failed directory creation, title
\* lookup or summary/MCQ write ends the run with every later stage skipped; a
\* failed transcript stage or Groq client set-up skips summary and MCQs; a
\* failed audio download does not skip the transcript stage and a failed
\* summary call does not skip the MCQ call.
C8_GracefulDegradation ==
    /\ escaped = FALSE
    /\ \A c \in Collaborators : calls[c] <= 1
    /\ \A f \in failed :
        /\ Logged(f[1])
        /\ EndsRun(f) => /\ mpc = "done"
                         /\ order[Len(order)] = f[1]
        /\ (f[1] = "transcript" \/ f = <<"init", "groq">>) =>
                /\ ~Ran("summary") /\ ~Ran("mcqs")
                /\ calls["summary"] = 0 /\ calls["mcqs"] = 0
        /\ (f[1] = "audio" /\ choice = "4" /\ mpc \notin {"audio", "transcript"}) =>
                Ran("transcript")
        /\ (f = <<"summary", "call">> /\ mpc # "mcqs") => Ran("mcqs")

\* both the audio download and the summary call failed, were logged, and the
\* transcript stage and the MCQ call ran all the same
C8_Witness ==
    /\ mpc = "done"
    /\ \E o \in {"ffmpeg", "download_error", "exception"} : <<"audio", o>> \in failed
    /\ <<"summary", "call">> \in failed
    /\ Logged("audio") /\ Logged("summary")
    /\ order = <<"mkdir", "init", "audio", "transcript", "summary", "mcqs">>

Role(kind) == IF kind = "summary" THEN "_summary.txt" ELSE "_mcqs.txt"

FileTexts(name) == { f[2] : f \in { g \in files : g[1] = name } }

\* C9 as stated: every response of the Text Generation Service is persisted
\* unmodified to the summary (MCQ) file, and a failed call writes no file.
C9_PersistsEveryResponse ==
    \A kind \in {"summary", "mcqs"} :
        /\ resp[kind] \in Responses =>
              FileTexts(FileName(video_title, Role(kind))) = {resp[kind]}
        /\ resp[kind] = Raised => FileTexts(FileName(video_title, Role(kind))) = {}

\* C9 as amended: every non-empty response whose file write succeeds is
\* persisted unmodified to the summary (MCQ) file; a failed call, an empty
\* response or no call at all writes no such file.
C9_PersistsVerbatim ==
    \A kind \in {"summary", "mcqs"} :
        /\ (resp[kind] \in Responses /\ resp[kind] # <<>> /\ <<kind, "write">> \notin failed) =>
              FileTexts(FileName(video_title, Role(kind))) = {resp[kind]}
        /\ (resp[kind] \in {Raised, None, <<>>} \/ <<kind, "write">> \in failed) =>
              FileTexts(FileName(video_title, Role(kind))) = {}

\* a response with surrounding whitespace is on disk exactly as returned, next
\* to a failed MCQ call that wrote nothing
C9_Witness ==
    /\ mpc = "done"
    /\ resp["summary"] = <<" ", "R", "\n">>
    /\ <<FileName(video_title, "_summary.txt"), <<" ", "R", "\n">>>> \in files
    /\ resp["mcqs"] = Raised
    /\ FileTexts(FileName(video_title, "_mcqs.txt")) = {}

\* C10: the stages run in the order audio, transcript, summary, MCQs, and a
\* text generation call is made only with choice 3 or 4, a non-empty
\* transcript returned by get_transcript in this run, and a Groq client.
C10_GenerationGuard ==
    /\ \A i \in 1..Len(order) : \A j \in (i + 1)..Len(order) :
            StageIdx(order[i]) < StageIdx(order[j])
    /\ (calls["summary"] + calls["mcqs"] > 0 \/ sent # {}) =>
            /\ choice \in {"3", "4"}
            /\ groq_client
            /\ Ran("transcript")
            /\ transcript # None /\ transcript # <<>>
            /\ <<FileName(video_title, "_transcript.txt"), transcript>> \in files
            /\ sent \subseteq {Prompt("summary", transcript), Prompt("mcqs", transcript)}
    /\ (choice \in {"1", "2"} \/ (mpc \in {"generate", "mcqs", "complete"} /\ ~Truthy(transcript)))
            => calls["summary"] + calls["mcqs"] = 0

\* a run with choice 4 went through all four stages and made both calls
C10_Witness ==
    /\ mpc = "done"
    /\ choice = "4"
    /\ order = <<"mkdir", "init", "audio", "transcript", "summary", "mcqs">>
    /\ calls["summary"] = 1 /\ calls["mcqs"] = 1
    /\ Truthy(transcript)

====
